---- MODULE Spec2Model ----
(***************************************************************************)
(* InvoiceService (src/src/invoice_service.py): validation of an invoice  *)
(* and the computation of its payable total.                               *)
(*                                                                         *)
(* Money.  The source computes in Python floats, IEEE 754 binary64, and so *)
(* does the model: an amount or a rate is a float (finite, inf or nan),    *)
(* Float(3, 100) is the float the literal 0.03 denotes, and Add, Sub, Mul, *)
(* Lt and Max are the float operations +, -, *, < and max, each rounded to *)
(* the nearest float, ties to even.  The shipping fees and thresholds, int  *)
(* literals of the source, enter the arithmetic as the floats of the same  *)
(* value.  The binary digits of a float are kept as a natural number in    *)
(* base Base, since they exceed the range of TLC's integers.               *)
(*                                                                         *)
(* Integers.  qty is a Python int, of any size: a sign and a magnitude in  *)
(* base Base, int(n) for a small n.  In unit_price * qty and 5.0 * qty the *)
(* int is first converted to the nearest float, and the conversion raises  *)
(* OverflowError when the int is beyond the largest float.                 *)
(*                                                                         *)
(* Types.  Arguments have the types the dataclasses declare: ids, country, *)
(* membership, sku and category are strings, qty is an int, items is a     *)
(* list, coupon is a string or None; the invoice itself may be None.       *)
(*                                                                         *)
(* Strings.  sku, ids, country, membership and messages are TLA+ strings   *)
(* (concatenated with \o as the f-strings and "; ".join do).  A coupon is  *)
(* the sequence of the code points of its characters, because str.strip()  *)
(* works on characters; None is the value NoneCoupon, which is no such     *)
(* sequence.                                                               *)
(***************************************************************************)
EXTENDS Integers, Sequences, FiniteSets, TLC

VARIABLES
    coupon_rate,   \* InvoiceService._coupon_rate: coupon code -> rate
    fn,            \* the method being called
    args,          \* its arguments (without self)
    ret,           \* the call's outcome: pending, returned (value) or raised (error)
    frame,         \* the locals of compute_total when it returned
    log            \* the finished compute_total calls of this service, oldest first

vars == <<coupon_rate, fn, args, ret, frame, log>>

\* ---------------------------------------------------------------- money
\* Natural numbers of any size: the sequence of the digits in base Base, the
\* least significant first, without a most significant 0; <<>> is 0.

Base == 32768

RECURSIVE BTrim(_)
BTrim(a) ==
    IF a # <<>> /\ a[Len(a)] = 0 THEN BTrim(SubSeq(a, 1, Len(a) - 1)) ELSE a

RECURSIVE BFromInt(_)
BFromInt(n) == IF n = 0 THEN <<>> ELSE <<n % Base>> \o BFromInt(n \div Base)

\* a + b + c, c a carry
RECURSIVE BAddC(_, _, _)
BAddC(a, b, c) ==
    IF a = <<>> /\ b = <<>> THEN (IF c = 0 THEN <<>> ELSE <<c>>)
    ELSE IF b = <<>> /\ c = 0 THEN a
    ELSE IF a = <<>> /\ c = 0 THEN b
    ELSE LET x == (IF a = <<>> THEN 0 ELSE a[1]) + (IF b = <<>> THEN 0 ELSE b[1]) + c
         IN  <<x % Base>> \o BAddC(IF a = <<>> THEN <<>> ELSE Tail(a),
                                   IF b = <<>> THEN <<>> ELSE Tail(b),
                                   x \div Base)

BAdd(a, b) == BAddC(a, b, 0)

\* a - b - c for a >= b + c, c a borrow; the result may end in zeros
RECURSIVE BSubC(_, _, _)
BSubC(a, b, c) ==
    IF b = <<>> /\ c = 0 THEN a
    ELSE LET x == a[1] - (IF b = <<>> THEN 0 ELSE b[1]) - c
         IN  <<IF x < 0 THEN x + Base ELSE x>>
             \o BSubC(Tail(a), IF b = <<>> THEN <<>> ELSE Tail(b),
                      IF x < 0 THEN 1 ELSE 0)

BSub(a, b) == BTrim(BSubC(a, b, 0))

\* -1, 0, 1 as a < b, a = b, a > b
RECURSIVE BCmpFrom(_, _, _)
BCmpFrom(a, b, i) ==
    IF i = 0 THEN 0
    ELSE IF a[i] < b[i] THEN 0 - 1
    ELSE IF a[i] > b[i] THEN 1
    ELSE BCmpFrom(a, b, i - 1)

BCmp(a, b) ==
    IF Len(a) < Len(b) THEN 0 - 1
    ELSE IF Len(a) > Len(b) THEN 1
    ELSE BCmpFrom(a, b, Len(a))

\* a * k + c for one digit k and a carry c
RECURSIVE BMulDigit(_, _, _)
BMulDigit(a, k, c) ==
    IF a = <<>> THEN (IF c = 0 THEN <<>> ELSE <<c>>)
    ELSE LET x == a[1] * k + c
         IN  <<x % Base>> \o BMulDigit(Tail(a), k, x \div Base)

RECURSIVE BMul(_, _)
BMul(a, b) ==
    IF a = <<>> \/ b = <<>> THEN <<>>
    ELSE BAdd(BMulDigit(a, b[1], 0),
              LET rest == BMul(a, Tail(b))
              IN  IF rest = <<>> THEN <<>> ELSE <<0>> \o rest)

\* <<a div d, a mod d>> for 0 < d <= Base
RECURSIVE BDivModDigit(_, _)
BDivModDigit(a, d) ==
    IF a = <<>> THEN <<<<>>, 0>>
    ELSE LET hi == BDivModDigit(Tail(a), d)
             x == hi[2] * Base + a[1]
         IN  <<IF hi[1] = <<>> /\ x \div d = 0 THEN <<>> ELSE <<x \div d>> \o hi[1],
               x % d>>

\* the number of binary digits of the integer n >= 0
RECURSIVE BitLen(_)
BitLen(n) == IF n = 0 THEN 0 ELSE 1 + BitLen(n \div 2)

BBitLen(a) == IF a = <<>> THEN 0 ELSE 15 * (Len(a) - 1) + BitLen(a[Len(a)])

\* the binary digit of weight 2^i
BBit(a, i) ==
    IF i \div 15 + 1 > Len(a) THEN 0 ELSE (a[i \div 15 + 1] \div 2^(i % 15)) % 2

\* the number of zeros the binary form of a > 0 ends in
RECURSIVE TrailingZeros(_)
TrailingZeros(n) == IF n % 2 = 1 THEN 0 ELSE 1 + TrailingZeros(n \div 2)

RECURSIVE BTrailingZeros(_)
BTrailingZeros(a) ==
    IF a[1] = 0 THEN 15 + BTrailingZeros(Tail(a)) ELSE TrailingZeros(a[1])

\* a * 2^k
BShl(a, k) ==
    IF a = <<>> THEN <<>>
    ELSE [i \in 1..(k \div 15) |-> 0] \o BMulDigit(a, 2^(k % 15), 0)

\* a div 2^k
BShr(a, k) ==
    IF k \div 15 >= Len(a) THEN <<>>
    ELSE BDivModDigit(SubSeq(a, k \div 15 + 1, Len(a)), 2^(k % 15))[1]

\* IEEE 754 binary64, the format of a Python float.  A finite value is
\* (-1)^sign * m * 2^e with m odd, or m = 0 and e = 0; m has at most Precision
\* binary digits, e >= MinExp and the value is below 2^MaxExp.

Precision == 53
MaxExp == 1024
MinExp == 0 - 1074

NaN == [cls |-> "nan", sign |-> 0, m |-> <<>>, e |-> 0]
Inf(sign) == [cls |-> "inf", sign |-> sign, m |-> <<>>, e |-> 0]
Zero(sign) == [cls |-> "finite", sign |-> sign, m |-> <<>>, e |-> 0]

\* the float of value (-1)^sign * m * 2^e when it is one, else inf
Canon(sign, m, e) ==
    IF m = <<>> THEN Zero(sign)
    ELSE LET tz == BTrailingZeros(m)
             odd == IF tz = 0 THEN m ELSE BShr(m, tz)
         IN  IF BBitLen(odd) + e + tz > MaxExp THEN Inf(sign)
             ELSE [cls |-> "finite", sign |-> sign, m |-> odd, e |-> e + tz]

\* (-1)^sign * m * 2^e rounded to the nearest float, ties to even
Round(sign, m, e) ==
    LET len == BBitLen(m)
        drop == IF len - Precision > MinExp - e THEN len - Precision ELSE MinExp - e
    IN  IF m = <<>> \/ drop <= 0 THEN Canon(sign, m, e)
        ELSE LET q == BShr(m, drop)
                 half == BBit(m, drop - 1) = 1
                 sticky == BTrailingZeros(m) < drop - 1
                 up == half /\ (sticky \/ BBit(q, 0) = 1)
             IN  Canon(sign, IF up THEN BAdd(q, <<1>>) ELSE q, e + drop)

Abs(n) == IF n < 0 THEN 0 - n ELSE n

\* the float nearest to n / d, as float("n/d in decimal") and the literals of
\* the source are; 0 < d <= Base
Float(n, d) ==
    LET qr == BDivModDigit(BShl(BFromInt(Abs(n)), 75), d)
    IN  IF d = 1 THEN Round(IF n < 0 THEN 1 ELSE 0, BFromInt(Abs(n)), 0)
        ELSE Round(IF n < 0 THEN 1 ELSE 0,
                   BAddC(BShl(qr[1], 1), <<>>, IF qr[2] = 0 THEN 0 ELSE 1),
                   0 - 76)

Neg(a) == [a EXCEPT !.sign = 1 - a.sign]

\* -1, 0, 1 as |a| < |b|, |a| = |b|, |a| > |b| for finite a and b
CmpAbs(a, b) ==
    IF a.m = <<>> \/ b.m = <<>>
    THEN (IF a.m = b.m THEN 0 ELSE IF a.m = <<>> THEN 0 - 1 ELSE 1)
    ELSE LET la == BBitLen(a.m) + a.e
             lb == BBitLen(b.m) + b.e
             low == IF a.e < b.e THEN a.e ELSE b.e
         IN  IF la < lb THEN 0 - 1
             ELSE IF la > lb THEN 1
             ELSE BCmp(BShl(a.m, a.e - low), BShl(b.m, b.e - low))

\* a stand-in for b in a + b when |b| is below a quarter of the last binary
\* digit a sum near a can keep: same sign, same rounding of the sum
Tiny(a, b) ==
    IF (BBitLen(a.m) + a.e) - (BBitLen(b.m) + b.e) > Precision + 7
    THEN [b EXCEPT !.m = <<1>>, !.e = BBitLen(a.m) + a.e - (Precision + 5)]
    ELSE b

\* x + y for finite nonzero x and y
AddFinite(x, y) ==
    LET low == IF x.e < y.e THEN x.e ELSE y.e
        p == BShl(x.m, x.e - low)
        q == BShl(y.m, y.e - low)
        c == BCmp(p, q)
    IN  IF x.sign = y.sign THEN Round(x.sign, BAdd(p, q), low)
        ELSE IF c = 0 THEN Zero(0)
        ELSE IF c > 0 THEN Round(x.sign, BSub(p, q), low)
        ELSE Round(y.sign, BSub(q, p), low)

\* a + b
Add(a, b) ==
    IF a.cls = "nan" \/ b.cls = "nan" THEN NaN
    ELSE IF a.cls = "inf"
    THEN (IF b.cls = "inf" /\ b.sign # a.sign THEN NaN ELSE a)
    ELSE IF b.cls = "inf" THEN b
    ELSE IF a.m = <<>> /\ b.m = <<>>
    THEN Zero(IF a.sign = 1 /\ b.sign = 1 THEN 1 ELSE 0)
    ELSE IF a.m = <<>> THEN b
    ELSE IF b.m = <<>> THEN a
    ELSE AddFinite(Tiny(b, a), Tiny(a, b))

\* a - b
Sub(a, b) == Add(a, Neg(b))

\* a * b
Mul(a, b) ==
    LET sign == IF a.sign = b.sign THEN 0 ELSE 1
    IN  IF a.cls = "nan" \/ b.cls = "nan" THEN NaN
        ELSE IF a.cls = "inf" \/ b.cls = "inf"
        THEN (IF (a.cls = "finite" /\ a.m = <<>>) \/ (b.cls = "finite" /\ b.m = <<>>)
              THEN NaN ELSE Inf(sign))
        ELSE Round(sign, BMul(a.m, b.m), a.e + b.e)

\* a < b
Lt(a, b) ==
    IF a.cls = "nan" \/ b.cls = "nan" THEN FALSE
    ELSE IF a.cls = "inf" \/ b.cls = "inf"
    THEN IF a.cls = "inf" /\ b.cls = "inf" THEN a.sign = 1 /\ b.sign = 0
         ELSE IF a.cls = "inf" THEN a.sign = 1
         ELSE b.sign = 0
    ELSE IF a.m = <<>> /\ b.m = <<>> THEN FALSE
    ELSE IF a.sign # b.sign THEN a.sign = 1
    ELSE IF a.sign = 0 THEN CmpAbs(a, b) < 0
    ELSE CmpAbs(a, b) > 0

\* max(a, b): a unless b > a
Max(a, b) == IF Lt(a, b) THEN b ELSE a

\* A Python int: (-1)^sign * m, the magnitude m a natural number of any size;
\* 0 has sign 0.

\* the int of value n
int(n) == [sign |-> IF n < 0 THEN 1 ELSE 0, m |-> BFromInt(Abs(n))]

\* i <= 0
IntLeZero(i) == i.sign = 1 \/ i.m = <<>>

\* the float an int operand of a float operation is converted to: the
\* nearest float, ties to even; inf stands for the OverflowError the
\* conversion raises when that float would be beyond the largest one
IntAsFloat(i) == Round(i.sign, i.m, 0)

\* -------------------------------------------------------------- strings

\* the code points c with chr(c).isspace(), which str.strip() removes
Whitespace ==
    {9, 10, 11, 12, 13, 28, 29, 30, 31, 32, 133, 160, 5760}
    \cup (8192..8202) \cup {8232, 8233, 8239, 8287, 12288}

RECURSIVE lstrip(_)
lstrip(s) == IF s # <<>> /\ Head(s) \in Whitespace THEN lstrip(Tail(s)) ELSE s

RECURSIVE rstrip(_)
rstrip(s) ==
    IF s # <<>> /\ s[Len(s)] \in Whitespace
    THEN rstrip(SubSeq(s, 1, Len(s) - 1))
    ELSE s

\* str.strip()
strip(s) == rstrip(lstrip(s))

\* sep.join(strs)
RECURSIVE join(_, _)
join(sep, strs) ==
    IF strs = <<>> THEN ""
    ELSE IF Len(strs) = 1 THEN strs[1]
    ELSE strs[1] \o sep \o join(sep, Tail(strs))

\* ---------------------------------------------------------- data model

\* inv is None
None == [none |-> TRUE]

\* coupon is None
NoneCoupon == <<0 - 1>>

\* "WELCOME10", "VIP20", "STUDENT5"
WELCOME10 == <<87, 69, 76, 67, 79, 77, 69, 49, 48>>
VIP20 == <<86, 73, 80, 50, 48>>
STUDENT5 == <<83, 84, 85, 68, 69, 78, 84, 53>>

LineItem(sku, category, unit_price, qty, fragile) ==
    [sku |-> sku, category |-> category, unit_price |-> unit_price,
     qty |-> qty, fragile |-> fragile]

Invoice(invoice_id, customer_id, country, membership, coupon, items) ==
    [invoice_id |-> invoice_id, customer_id |-> customer_id, country |-> country,
     membership |-> membership, coupon |-> coupon, items |-> items]

\* InvoiceService.__init__
InitCouponRate ==
    WELCOME10 :> Float(10, 100) @@ VIP20 :> Float(20, 100) @@ STUDENT5 :> Float(5, 100)

\* ------------------------------------------------------------ _validate

\* faulty variant of the item checks: an elif chain, one problem per item
ItemProblems_first(it) ==
    IF it.sku = "" THEN <<"Item sku is missing">>
    ELSE IF IntLeZero(it.qty) THEN <<"Invalid qty for " \o it.sku>>
    ELSE IF Lt(it.unit_price, Float(0, 1)) THEN <<"Invalid price for " \o it.sku>>
    ELSE IF it.category \notin {"book", "food", "electronics", "other"}
    THEN <<"Unknown category for " \o it.sku>>
    ELSE <<>>

ItemProblems(it) ==
    (IF it.sku = "" THEN <<"Item sku is missing">> ELSE <<>>)
    \o (IF IntLeZero(it.qty) THEN <<"Invalid qty for " \o it.sku>> ELSE <<>>)
    \o (IF Lt(it.unit_price, Float(0, 1))
        THEN <<"Invalid price for " \o it.sku>> ELSE <<>>)
    \o (IF it.category \notin {"book", "food", "electronics", "other"}
        THEN <<"Unknown category for " \o it.sku>> ELSE <<>>)

RECURSIVE ItemsProblems(_)
ItemsProblems(items) ==
    IF items = <<>> THEN <<>>
    ELSE ItemProblems(Head(items)) \o ItemsProblems(Tail(items))

_validate(inv) ==
    IF inv = None THEN <<"Invoice is missing">>
    ELSE (IF inv.invoice_id = "" THEN <<"Missing invoice_id">> ELSE <<>>)
         \o (IF inv.customer_id = "" THEN <<"Missing customer_id">> ELSE <<>>)
         \o (IF inv.items = <<>> THEN <<"Invoice must contain items">> ELSE <<>>)
         \o ItemsProblems(inv.items)

\* ------------------------------------------------------------- outcomes

Pending == [status |-> "pending"]
Returned(value) == [status |-> "returned", value |-> value]

\* raise ValueError(message)
Raised(message) == [status |-> "raised", error |-> "ValueError", message |-> message]

\* the error float * int raises when the int is beyond the largest float
OverflowError ==
    [status |-> "raised", error |-> "OverflowError",
     message |-> "int too large to convert to float"]

\* ------------------------------------- _calculate_subtotal_and_fragile_fee

\* Returned(<<subtotal, fragile_fee>>), or the OverflowError of the first item
\* whose qty line 56 cannot convert
RECURSIVE _calculate_subtotal_and_fragile_fee(_)
_calculate_subtotal_and_fragile_fee(items) ==
    IF items = <<>> THEN Returned(<<Float(0, 1), Float(0, 1)>>)
    ELSE LET n == Len(items)
             it == items[n]
             before == _calculate_subtotal_and_fragile_fee(SubSeq(items, 1, n - 1))
             qty == IntAsFloat(it.qty)
             line == Mul(it.unit_price, qty)
         IN  IF before.status = "raised" THEN before
             ELSE IF qty.cls = "inf" THEN OverflowError
             ELSE Returned(<<Add(before.value[1], line),
                             IF it.fragile
                             THEN Add(before.value[2], Mul(Float(5, 1), qty))
                             ELSE before.value[2]>>)

\* ---------------------------------------------------- _calculate_shipping

shipping_rates ==
    "TH" :> <<Float(500, 1), Float(60, 1)>>
    @@ "JP" :> <<Float(4000, 1), Float(600, 1)>>
    @@ "US" :> <<Float(100, 1), Float(15, 1)>>

\* faulty variant of _calculate_shipping: <= in place of <
_calculate_shipping_inclusive(country, subtotal) ==
    IF country \in DOMAIN shipping_rates
    THEN IF ~Lt(shipping_rates[country][1], subtotal)
         THEN shipping_rates[country][2] ELSE Float(0, 1)
    ELSE IF ~Lt(Float(200, 1), subtotal) THEN Float(25, 1) ELSE Float(0, 1)

_calculate_shipping(country, subtotal) ==
    IF country \in DOMAIN shipping_rates
    THEN LET threshold == shipping_rates[country][1]
             base_fee == shipping_rates[country][2]
         IN  IF Lt(subtotal, threshold) THEN base_fee ELSE Float(0, 1)
    ELSE IF Lt(subtotal, Float(200, 1)) THEN Float(25, 1) ELSE Float(0, 1)

\* ----------------------------------------------- _calculate_base_discount

\* faulty variant of _calculate_base_discount: the volume discount is added
\* to the membership discount
_calculate_base_discount_additive(membership, subtotal) ==
    Add(IF membership = "gold" THEN Mul(subtotal, Float(3, 100))
        ELSE IF membership = "platinum" THEN Mul(subtotal, Float(5, 100))
        ELSE Float(0, 1),
        IF Lt(Float(3000, 1), subtotal) THEN Float(20, 1) ELSE Float(0, 1))

_calculate_base_discount(membership, subtotal) ==
    IF membership = "gold" THEN Mul(subtotal, Float(3, 100))
    ELSE IF membership = "platinum" THEN Mul(subtotal, Float(5, 100))
    ELSE IF Lt(Float(3000, 1), subtotal) THEN Float(20, 1)
    ELSE Float(0, 1)

\* ---------------------------------------------------------- _apply_coupon

\* faulty variant of _apply_coupon: the untrimmed coupon is looked up
_apply_coupon_untrimmed(rates, coupon, subtotal) ==
    IF coupon # NoneCoupon /\ strip(coupon) # <<>>
    THEN IF coupon \in DOMAIN rates
         THEN <<Mul(subtotal, rates[coupon]), <<>>>>
         ELSE <<Float(0, 1), <<"Unknown coupon">>>>
    ELSE <<Float(0, 1), <<>>>>

_apply_coupon(rates, coupon, subtotal) ==
    IF coupon # NoneCoupon /\ strip(coupon) # <<>>
    THEN LET code == strip(coupon)
         IN  IF code \in DOMAIN rates
             THEN <<Mul(subtotal, rates[code]), <<>>>>
             ELSE <<Float(0, 1), <<"Unknown coupon">>>>
    ELSE <<Float(0, 1), <<>>>>

\* --------------------------------------------------------- _calculate_tax

tax_rates == "TH" :> Float(7, 100) @@ "JP" :> Float(10, 100) @@ "US" :> Float(8, 100)

_calculate_tax(country, subtotal, discount) ==
    LET rate == IF country \in DOMAIN tax_rates THEN tax_rates[country]
                ELSE Float(5, 100)
    IN  Mul(Sub(subtotal, discount), rate)

\* ---------------------------------------------------------- compute_total

NoFrame == [none |-> TRUE]

\* lines 120-121: total = subtotal + shipping + fragile_fee + tax - discount,
\* then total = max(total, 0.0)
total_clamped(subtotal, shipping, fragile_fee, tax, discount) ==
    Max(Sub(Add(Add(Add(subtotal, shipping), fragile_fee), tax), discount),
        Float(0, 1))

\* faulty variant of the warnings: the upgrade suggestion comes first
warnings_upgrade_first(coupon_warnings, subtotal, membership) ==
    (IF Lt(Float(10000, 1), subtotal) /\ membership \notin {"gold", "platinum"}
     THEN <<"Consider membership upgrade">> ELSE <<>>)
    \o coupon_warnings

\* faulty variant of the warnings: the list is kept on the service and not
\* cleared, so a call starts from the warnings the call before it returned
warnings_kept(coupon_warnings, subtotal, membership) ==
    (IF fn = "compute_total" /\ ret.status = "returned" THEN ret.value[2] ELSE <<>>)
    \o coupon_warnings
    \o (IF Lt(Float(10000, 1), subtotal) /\ membership \notin {"gold", "platinum"}
        THEN <<"Consider membership upgrade">> ELSE <<>>)

\* lines 107, 116, 123-124: warnings.extend(coupon_warnings), then the
\* upgrade suggestion
warnings_at_return(coupon_warnings, subtotal, membership) ==
    coupon_warnings
    \o (IF Lt(Float(10000, 1), subtotal) /\ membership \notin {"gold", "platinum"}
        THEN <<"Consider membership upgrade">> ELSE <<>>)

\* lines 113-126: the locals when compute_total returns, st the pair line 112
\* assigns
compute_total_locals(rates, inv, st) ==
    LET subtotal == st[1]
        fragile_fee == st[2]
        shipping == _calculate_shipping(inv.country, subtotal)
        base == _calculate_base_discount(inv.membership, subtotal)
        cp == _apply_coupon(rates, inv.coupon, subtotal)
        coupon_discount == cp[1]
        coupon_warnings == cp[2]
        discount == Add(base, coupon_discount)
        tax == _calculate_tax(inv.country, subtotal, discount)
    IN  [subtotal |-> subtotal, fragile_fee |-> fragile_fee, shipping |-> shipping,
         coupon_discount |-> coupon_discount, coupon_warnings |-> coupon_warnings,
         discount |-> discount, tax |-> tax,
         total |-> total_clamped(subtotal, shipping, fragile_fee, tax, discount),
         warnings |-> warnings_at_return(coupon_warnings, subtotal, inv.membership)]

compute_total(inv) ==
    LET problems == _validate(inv)
        st == _calculate_subtotal_and_fragile_fee(inv.items)
    IN  /\ \/ /\ problems # <<>>
              /\ ret' = Raised(join("; ", problems))
              /\ frame' = NoFrame
           \/ /\ problems = <<>>
              /\ st.status = "raised"
              /\ ret' = st
              /\ frame' = NoFrame
           \/ /\ problems = <<>>
              /\ st.status = "returned"
              /\ frame' = compute_total_locals(coupon_rate, inv, st.value)
              /\ ret' = Returned(<<frame'.total, frame'.warnings>>)
        /\ fn' = "compute_total"
        /\ args' = <<inv>>
        /\ log' = Append(log, [inv |-> inv, ret |-> ret'])
        /\ UNCHANGED coupon_rate

\* ----------------------------------------------------------------- inputs

MaxItems == 2
MaxCalls == 3
MaxSubtotal == 5000
MaxPad == 1

\* the sequences over S of length at most n
SeqsUpTo(S, n) == UNION {[1..k -> S] : k \in 0..n}

Countries == {"TH", "JP", "US", "XX"}
Memberships == {"none", "gold", "platinum", "silver"}

\* "BOGUS"
BOGUS == <<66, 79, 71, 85, 83>>

\* " WELCOME10 "
PaddedWelcome10 == <<32>> \o WELCOME10 \o <<32>>

\* priced invoices: every field valid.  The items: 0.1 x 1 and 33.3 x 3 (the
\* float subtotal of the two is 99.99999999999999), 100 x 2 fragile, 5000 x 2
\* and 19.5 x 1 fragile
PricedItems ==
    {LineItem("A", "book", Float(1, 10), int(1), FALSE),
     LineItem("B", "food", Float(333, 10), int(3), FALSE),
     LineItem("A", "book", Float(100, 1), int(2), TRUE),
     LineItem("E", "electronics", Float(5000, 1), int(2), FALSE),
     LineItem("F", "other", Float(39, 2), int(1), TRUE)}

PricedInvoices ==
    {Invoice("INV-1", "CUST-1", c, m, k, its) :
        c \in Countries, m \in {"none", "gold", "platinum"},
        k \in {NoneCoupon, <<11>>, PaddedWelcome10, VIP20, BOGUS},
        its \in SeqsUpTo(PricedItems, MaxItems) \ {<<>>}}

\* invoices with any combination of the validator's problems (and none);
\* unit prices -0.01 and 0
FaultyItems ==
    {LineItem(s, c, p, q, FALSE) :
        s \in {"", "A"}, c \in {"book", "toy"},
        p \in {Float(0 - 1, 100), Float(0, 1)}, q \in {int(0), int(1)}}

FaultyInvoices ==
    {Invoice(i, c, "US", "none", NoneCoupon, its) :
        i \in {"", "INV-1"}, c \in {"", "CUST-1"},
        its \in SeqsUpTo(FaultyItems, MaxItems)}

\* invoices whose float subtotal is next to a threshold: 0.03 x 1 and
\* 999.99 x 3 (3000.0000000000005), 0.04 x 1 and 3333.32 x 3
\* (10000.000000000002), 0.08 x 1 and 166.64 x 3 (499.99999999999994), and
\* 61.08, 35.43 and 3.49 (99.99999999999999)
RoundedItems ==
    {<<LineItem("A", "book", Float(3, 100), int(1), FALSE),
       LineItem("B", "book", Float(99999, 100), int(3), FALSE)>>,
     <<LineItem("A", "book", Float(4, 100), int(1), FALSE),
       LineItem("B", "book", Float(333332, 100), int(3), FALSE)>>,
     <<LineItem("A", "book", Float(8, 100), int(1), FALSE),
       LineItem("B", "book", Float(16664, 100), int(3), FALSE)>>,
     <<LineItem("A", "book", Float(6108, 100), int(1), FALSE),
       LineItem("B", "book", Float(3543, 100), int(1), FALSE),
       LineItem("C", "book", Float(349, 100), int(1), FALSE)>>}

RoundedInvoices ==
    {Invoice("INV-1", "CUST-1", c, m, k, its) :
        c \in {"TH", "US", "XX"}, m \in {"none", "gold"},
        k \in {NoneCoupon, BOGUS}, its \in RoundedItems}

\* 1e308
Huge == Canon(0, <<24133, 14430, 14750, 4>>, 976)

\* 2**53 + 1, the least positive int that is no float
TwoTo53Plus1 == [sign |-> 0, m |-> <<1, 0, 0, 256>>]

\* 10**400, beyond the largest float
TenTo400 ==
    [sign |-> 0,
     m |-> <<
             0, 0, 0, 0, 0, 0, 0, 0, 0, 0, 0, 0, 0, 0, 0, 0, 0, 0, 0,
             0, 0, 0, 0, 0, 0, 0, 1024, 32078, 30690, 1158, 31790,
             6516, 27611, 3175, 20105, 9302, 6458, 21832, 4709, 28743,
             20569, 25539, 29321, 1594, 15902, 2306, 27935, 15206,
             8423, 13173, 14693, 4534, 32740, 13444, 25457, 6751,
             12166, 31681, 15795, 5990, 27147, 21288, 5363, 12620,
             20878, 7381, 14704, 144, 31733, 14870, 3129, 22976,
             12205, 673, 11823, 10440, 22783, 23492, 20832, 23410,
             17293, 751, 7151, 26233, 15537, 26622, 25701, 30271, 436
           >>]

\* valid items with a price near the largest float or a qty beyond the ints
\* that are floats: 1e308 x 1 (the subtotal is finite), 1e308 x 10 (the
\* subtotal is inf), 3.0 x (2**53 + 1) fragile, 1.0 x 10**400, and 100 x 2
\* fragile
HugeItems ==
    {LineItem("A", "book", Huge, int(1), FALSE),
     LineItem("A", "book", Huge, int(10), FALSE),
     LineItem("C", "food", Float(3, 1), TwoTo53Plus1, TRUE),
     LineItem("D", "other", Float(1, 1), TenTo400, FALSE),
     LineItem("B", "book", Float(100, 1), int(2), TRUE)}

HugeInvoices ==
    {Invoice("INV-1", "CUST-1", c, m, k, its) :
        c \in Countries, m \in {"none", "gold", "platinum"},
        k \in {NoneCoupon, VIP20, BOGUS},
        its \in SeqsUpTo(HugeItems, MaxItems) \ {<<>>}}

Invoices ==
    PricedInvoices \cup RoundedInvoices \cup HugeInvoices \cup FaultyInvoices
    \cup {None}

\* amounts below one cent and with three decimals: 0.002, 0.005, 19.995, 19.996
FineAmounts == {Float(2, 1000), Float(5, 1000), Float(19995, 1000), Float(19996, 1000)}

\* subtotals next to a threshold, as line 57 leaves them: 0.1 + 33.3 * 3 =
\* 99.99999999999999, 0.08 + 166.64 * 3 = 499.99999999999994, 0.03 + 999.99 * 3
\* = 3000.0000000000005, and 43.52 + 45.78 + 10.7 = 100.00000000000001
RoundedAmounts ==
    {Add(Float(1, 10), Mul(Float(333, 10), Float(3, 1))),
     Add(Float(8, 100), Mul(Float(16664, 100), Float(3, 1))),
     Add(Float(3, 100), Mul(Float(99999, 100), Float(3, 1))),
     Add(Add(Float(4352, 100), Float(4578, 100)), Float(107, 10))}

\* amounts from 0 to MaxSubtotal currency units in steps of one half, the
\* fine and the rounded amounts
Amounts ==
    {Float(h, 2) : h \in 0..(2 * MaxSubtotal)} \cup FineAmounts \cup RoundedAmounts

\* space, tab, vertical tab, unit separator, no-break space, ideographic space
PadChars == {32, 9, 11, 31, 160, 12288}

Pads == SeqsUpTo(PadChars, MaxPad)

\* "", the three codes, "BOGUS", "vip20", "VIP 20", "VIP2", "VIP\x0b20"
CouponCores ==
    {<<>>, WELCOME10, VIP20, STUDENT5, BOGUS,
     <<118, 105, 112, 50, 48>>, <<86, 73, 80, 32, 50, 48>>, <<86, 73, 80, 50>>,
     <<86, 73, 80, 11, 50, 48>>}

Coupons == {l \o core \o r : l \in Pads, core \in CouponCores, r \in Pads} \cup {NoneCoupon}

\* subtotals 0, 0.005, 33.3, 1000 and 2500.5
CouponSubtotals ==
    {Float(0, 1), Float(5, 1000), Float(333, 10), Float(1000, 1), Float(5001, 2)}

\* ---------------------------------------------------------- specifications

\* One compute_total call on a fresh service.
Init ==
    /\ coupon_rate = InitCouponRate
    /\ fn = "compute_total"
    /\ args \in {<<inv>> : inv \in Invoices}
    /\ ret = Pending
    /\ frame = NoFrame
    /\ log = <<>>

ComputeTotal ==
    /\ fn = "compute_total"
    /\ ret = Pending
    /\ compute_total(args[1])

Next == ComputeTotal

Spec == Init /\ [][Next]_vars

\* A sequence of compute_total calls on one service.
SessionInvoices ==
    {None,
     Invoice("", "CUST-1", "US", "none", NoneCoupon, <<>>),
     Invoice("INV-1", "CUST-1", "US", "none", NoneCoupon,
             <<LineItem("A", "book", Float(1, 10), int(1), FALSE),
               LineItem("B", "book", Float(333, 10), int(3), TRUE)>>),
     Invoice("INV-1", "CUST-1", "TH", "gold", PaddedWelcome10,
             <<LineItem("A", "book", Float(100, 1), int(2), TRUE)>>),
     Invoice("INV-1", "CUST-1", "JP", "platinum", VIP20,
             <<LineItem("B", "food", Float(5000, 1), int(1), FALSE)>>),
     Invoice("INV-1", "CUST-1", "XX", "none", STUDENT5,
             <<LineItem("B", "food", Float(5000, 1), int(2), FALSE),
               LineItem("C", "other", Float(100, 1), int(1), FALSE)>>),
     Invoice("INV-2", "CUST-1", "XX", "silver", BOGUS,
             <<LineItem("B", "food", Float(5000, 1), int(2), FALSE),
               LineItem("C", "other", Float(100, 1), int(1), FALSE)>>),
     Invoice("INV-3", "CUST-2", "US", "none", NoneCoupon,
             <<LineItem("", "toy", Float(0 - 1, 1), int(0), FALSE)>>),
     Invoice("INV-4", "CUST-2", "US", "none", BOGUS,
             <<LineItem("A", "book", Float(100, 1), int(2), TRUE),
               LineItem("D", "other", Float(1, 1), TenTo400, FALSE)>>)}

InitSession ==
    /\ coupon_rate = InitCouponRate
    /\ fn = "__init__"
    /\ args = <<>>
    /\ ret = Returned(None)
    /\ frame = NoFrame
    /\ log = <<>>

NextCall ==
    /\ Len(log) < MaxCalls
    /\ \E inv \in SessionInvoices : compute_total(inv)

SpecSession == InitSession /\ [][NextCall]_vars

\* _validate applied to one invoice.
InitValidate ==
    /\ coupon_rate = InitCouponRate
    /\ fn = "_validate"
    /\ args \in {<<inv>> : inv \in FaultyInvoices \cup {None}}
    /\ ret = Pending
    /\ frame = NoFrame
    /\ log = <<>>

Validate ==
    /\ fn = "_validate"
    /\ ret = Pending
    /\ ret' = Returned(_validate(args[1]))
    /\ UNCHANGED <<coupon_rate, fn, args, frame, log>>

SpecValidate == InitValidate /\ [][Validate]_vars

\* _calculate_base_discount applied to one membership and subtotal.
InitBaseDiscount ==
    /\ coupon_rate = InitCouponRate
    /\ fn = "_calculate_base_discount"
    /\ args \in Memberships \X Amounts
    /\ ret = Pending
    /\ frame = NoFrame
    /\ log = <<>>

CalculateBaseDiscount ==
    /\ fn = "_calculate_base_discount"
    /\ ret = Pending
    /\ ret' = Returned(_calculate_base_discount(args[1], args[2]))
    /\ UNCHANGED <<coupon_rate, fn, args, frame, log>>

SpecBaseDiscount == InitBaseDiscount /\ [][CalculateBaseDiscount]_vars

\* _calculate_shipping applied to one country and subtotal.
InitShipping ==
    /\ coupon_rate = InitCouponRate
    /\ fn = "_calculate_shipping"
    /\ args \in Countries \X Amounts
    /\ ret = Pending
    /\ frame = NoFrame
    /\ log = <<>>

CalculateShipping ==
    /\ fn = "_calculate_shipping"
    /\ ret = Pending
    /\ ret' = Returned(_calculate_shipping(args[1], args[2]))
    /\ UNCHANGED <<coupon_rate, fn, args, frame, log>>

SpecShipping == InitShipping /\ [][CalculateShipping]_vars

\* _apply_coupon applied to one coupon and subtotal.
InitCoupon ==
    /\ coupon_rate = InitCouponRate
    /\ fn = "_apply_coupon"
    /\ args \in Coupons \X CouponSubtotals
    /\ ret = Pending
    /\ frame = NoFrame
    /\ log = <<>>

ApplyCoupon ==
    /\ fn = "_apply_coupon"
    /\ ret = Pending
    /\ ret' = Returned(_apply_coupon(coupon_rate, args[1], args[2]))
    /\ UNCHANGED <<coupon_rate, fn, args, frame, log>>

SpecCoupon == InitCoupon /\ [][ApplyCoupon]_vars

\* -------------------------------------------------------------- properties

\* a <= b
Le(a, b) == a.cls # "nan" /\ b.cls # "nan" /\ ~Lt(b, a)

NonNegative(a) == Le(Float(0, 1), a)

\* an invoice that is valid in the words of the data model
ValidInvoice(inv) ==
    /\ inv # None
    /\ inv.invoice_id # ""
    /\ inv.customer_id # ""
    /\ Len(inv.items) >= 1
    /\ \A i \in 1..Len(inv.items) :
          /\ inv.items[i].sku # ""
          /\ inv.items[i].qty.sign = 0
          /\ inv.items[i].qty.m # <<>>
          /\ NonNegative(inv.items[i].unit_price)
          /\ inv.items[i].category \in {"book", "food", "electronics", "other"}

\* the first k of the problems, each after the first preceded by "; "
RECURSIVE JoinedUpTo(_, _)
JoinedUpTo(problems, k) ==
    IF k = 0 THEN ""
    ELSE IF k = 1 THEN problems[1]
    ELSE JoinedUpTo(problems, k - 1) \o "; " \o problems[k]

\* C1: compute_total raises exactly when the validator reports problems; the
\* error's message is the problems in validator order joined by "; " and no
\* (total, warnings) pair is produced; with no problems (whatever the coupon,
\* country and membership) it returns a (total, warnings) pair.
C1_FailsExactlyOnProblems ==
    (fn = "compute_total" /\ ret # Pending) =>
        LET problems == _validate(args[1])
        IN  IF problems # <<>>
            THEN /\ ret.status = "raised"
                 /\ ret.message = JoinedUpTo(problems, Len(problems))
                 /\ frame = NoFrame
            ELSE /\ ret.status = "returned"
                 /\ Len(ret.value) = 2
                 /\ ret.value[1] = frame.total
                 /\ ret.value[2] = frame.warnings

\* C2: for every valid invoice, whatever the country, membership and coupon,
\* compute_total returns and the total it returns is >= 0.
C2_TotalNonNegative ==
    (fn = "compute_total" /\ ret # Pending /\ ValidInvoice(args[1])) =>
        /\ ret.status = "returned"
        /\ NonNegative(ret.value[1])

\* sum of unit_price * qty over the first k items, added in item order
RECURSIVE SumOfLines(_, _)
SumOfLines(items, k) ==
    IF k = 0 THEN Float(0, 1)
    ELSE Add(SumOfLines(items, k - 1),
             Mul(items[k].unit_price, IntAsFloat(items[k].qty)))

\* sum of 5 * qty over the fragile ones of the first k items, in item order
RECURSIVE SumOfFragileFees(_, _)
SumOfFragileFees(items, k) ==
    IF k = 0 THEN Float(0, 1)
    ELSE IF items[k].fragile
    THEN Add(SumOfFragileFees(items, k - 1),
             Mul(Float(5, 1), IntAsFloat(items[k].qty)))
    ELSE SumOfFragileFees(items, k - 1)

\* the tax rate in percent
TaxPercent(country) ==
    CASE country = "TH" -> 7
      [] country = "JP" -> 10
      [] country = "US" -> 8
      [] OTHER -> 5

\* max(0, subtotal + shipping + fragile_fee + tax - discount) with the tax
\* taken once on subtotal - discount, in float arithmetic from left to right
ExpectedTotal(rates, inv) ==
    LET subtotal == SumOfLines(inv.items, Len(inv.items))
        discount == Add(_calculate_base_discount(inv.membership, subtotal),
                        _apply_coupon(rates, inv.coupon, subtotal)[1])
        tax == Mul(Sub(subtotal, discount), Float(TaxPercent(inv.country), 100))
        sum == Sub(Add(Add(Add(subtotal, _calculate_shipping(inv.country, subtotal)),
                           SumOfFragileFees(inv.items, Len(inv.items))),
                       tax),
                   discount)
    IN  IF Lt(sum, Float(0, 1)) THEN Float(0, 1) ELSE sum

Scenario3 ==
    Invoice("INV-1", "CUST-1", "US", "none", NoneCoupon,
            <<LineItem("A", "book", Float(100, 1), int(2), TRUE)>>)

\* C3: for every valid invoice the total is
\* max(0, subtotal + shipping + fragile_fee + tax - discount), the subtotal
\* the sum of unit_price * qty, the fragile fee 5 * qty over the fragile items,
\* the tax (subtotal - discount) * rate with rate 0.07 TH, 0.10 JP, 0.08 US,
\* 0.05 otherwise; one fragile book item at 100 x 2 for US, membership none,
\* no coupon gives 226 and no warnings.
C3_TotalFormula ==
    (fn = "compute_total" /\ ret # Pending /\ ValidInvoice(args[1])) =>
        /\ ret.status = "returned"
        /\ ret.value[1] = ExpectedTotal(coupon_rate, args[1])
        /\ args[1] = Scenario3 => ret.value = <<Float(226, 1), <<>>>>

\* the four checks of one item, in the validator's order
ItemCheck(it, j) ==
    CASE j = 0 -> <<it.sku = "", "Item sku is missing">>
      [] j = 1 -> <<~(it.qty.sign = 0 /\ it.qty.m # <<>>),
                    "Invalid qty for " \o it.sku>>
      [] j = 2 -> <<Lt(it.unit_price, Float(0, 1)), "Invalid price for " \o it.sku>>
      [] j = 3 -> <<it.category \notin {"book", "food", "electronics", "other"},
                    "Unknown category for " \o it.sku>>

\* every check of a present invoice, in order: the three of the invoice, then
\* four per item in item order
AllChecks(inv) ==
    [k \in 1..(3 + 4 * Len(inv.items)) |->
        CASE k = 1 -> <<inv.invoice_id = "", "Missing invoice_id">>
          [] k = 2 -> <<inv.customer_id = "", "Missing customer_id">>
          [] k = 3 -> <<inv.items = <<>>, "Invoice must contain items">>
          [] OTHER -> ItemCheck(inv.items[((k - 4) \div 4) + 1], (k - 4) % 4)]

Failed(check) == check[1]

ExpectedProblems(inv) ==
    IF inv = None THEN <<"Invoice is missing">>
    ELSE LET failed == SelectSeq(AllChecks(inv), Failed)
         IN  [k \in 1..Len(failed) |-> failed[k][2]]

ThreeProblemItem ==
    Invoice("INV-1", "CUST-1", "US", "none", NoneCoupon,
            <<LineItem("", "toy", Float(0, 1), int(0), FALSE)>>)

\* C4: the validator returns exactly ["Invoice is missing"] for an absent
\* invoice; otherwise every problem that applies, in the order invoice_id,
\* customer_id, empty item list, then per item in item order sku, qty, price,
\* category; one item with an empty sku, a zero qty and an invalid category
\* yields all three of its problems.
C4_AllProblemsInOrder ==
    (fn = "_validate" /\ ret # Pending) =>
        /\ ret.status = "returned"
        /\ ret.value = ExpectedProblems(args[1])
        /\ args[1] = ThreeProblemItem =>
              ret.value = <<"Item sku is missing", "Invalid qty for ",
                            "Unknown category for ">>

\* the item with three problems was validated
C4_Witness ==
    /\ fn = "_validate"
    /\ ret.status = "returned"
    /\ args[1] = ThreeProblemItem

\* C5: the base discount of a gold member is subtotal * 0.03 and of a platinum
\* member subtotal * 0.05 for every subtotal, without the flat 20 (gold at 5000
\* gives 150); of any other membership it is 20 when subtotal > 3000 and 0 when
\* subtotal <= 3000.
C5_BaseDiscount ==
    (fn = "_calculate_base_discount" /\ ret # Pending) =>
        LET membership == args[1]
            subtotal == args[2]
        IN  /\ ret.status = "returned"
            /\ membership = "gold" => ret.value = Mul(subtotal, Float(3, 100))
            /\ membership = "platinum" => ret.value = Mul(subtotal, Float(5, 100))
            /\ membership \notin {"gold", "platinum"} =>
                  ret.value = IF Lt(Float(3000, 1), subtotal)
                              THEN Float(20, 1)
                              ELSE Float(0, 1)
            /\ args = <<"gold", Float(5000, 1)>> => ret.value = Float(150, 1)

\* the discount of a gold member at 5000 was computed
C5_Witness ==
    /\ fn = "_calculate_base_discount"
    /\ ret.status = "returned"
    /\ args = <<"gold", Float(5000, 1)>>

\* C6: shipping is the country's fee when subtotal < threshold and 0 when
\* subtotal >= threshold, with (threshold, fee) (500, 60) for TH, (4000, 600)
\* for JP, (100, 15) for US and (200, 25) for any other country
\* (US 50 -> 15, US 150 -> 0, XX 199 -> 25, XX 200 -> 0).
C6_Shipping ==
    (fn = "_calculate_shipping" /\ ret # Pending) =>
        LET country == args[1]
            subtotal == args[2]
            rule == CASE country = "TH" -> <<500, 60>>
                      [] country = "JP" -> <<4000, 600>>
                      [] country = "US" -> <<100, 15>>
                      [] OTHER -> <<200, 25>>
        IN  /\ ret.status = "returned"
            /\ Lt(subtotal, Float(rule[1], 1)) => ret.value = Float(rule[2], 1)
            /\ Le(Float(rule[1], 1), subtotal) => ret.value = Float(0, 1)
            /\ Lt(subtotal, Float(rule[1], 1)) \/ Le(Float(rule[1], 1), subtotal)
            /\ args = <<"US", Float(50, 1)>> => ret.value = Float(15, 1)
            /\ args = <<"US", Float(150, 1)>> => ret.value = Float(0, 1)
            /\ args = <<"XX", Float(199, 1)>> => ret.value = Float(25, 1)
            /\ args = <<"XX", Float(200, 1)>> => ret.value = Float(0, 1)

\* shipping at a subtotal equal to the threshold was computed
C6_Witness ==
    /\ fn = "_calculate_shipping"
    /\ ret.status = "returned"
    /\ args = <<"XX", Float(200, 1)>>

\* the characters Python's str.isspace() holds of: the ASCII controls
\* \t \n \v \f \r and \x1c-\x1f, the space, NEL, the no-break space and the
\* Unicode separators (categories Zs, Zl, Zp)
IsSpace(c) ==
    \/ c \in 9..13
    \/ c \in 28..32
    \/ c \in {133, 160, 5760}
    \/ c \in 8192..8202
    \/ c \in {8232, 8233, 8239, 8287, 12288}

\* the coupon without its leading and trailing whitespace
Trimmed(coupon) ==
    LET inked == {i \in 1..Len(coupon) : ~IsSpace(coupon[i])}
        first == CHOOSE i \in inked : \A j \in inked : i <= j
        last == CHOOSE i \in inked : \A j \in inked : i >= j
    IN  IF inked = {} THEN <<>> ELSE SubSeq(coupon, first, last)

\* C7: an absent, empty or whitespace-only coupon gives discount 0 and no
\* warning; a coupon whose trimmed code is exactly WELCOME10, VIP20 or STUDENT5
\* gives subtotal * 0.10, 0.20 or 0.05 and no warning (" WELCOME10 " on 1000
\* gives 100); any other coupon gives discount 0 and exactly one
\* "Unknown coupon" warning.
C7_CouponOutcomes ==
    (fn = "_apply_coupon" /\ ret # Pending) =>
        LET coupon == args[1]
            subtotal == args[2]
            code == IF coupon = NoneCoupon THEN <<>> ELSE Trimmed(coupon)
            percent == CASE code = WELCOME10 -> 10
                         [] code = VIP20 -> 20
                         [] code = STUDENT5 -> 5
                         [] OTHER -> 0
        IN  /\ ret.status = "returned"
            /\ code = <<>> => ret.value = <<Float(0, 1), <<>>>>
            /\ code \in {WELCOME10, VIP20, STUDENT5} =>
                  ret.value = <<Mul(subtotal, Float(percent, 100)), <<>>>>
            /\ (code # <<>> /\ code \notin {WELCOME10, VIP20, STUDENT5}) =>
                  ret.value = <<Float(0, 1), <<"Unknown coupon">>>>
            /\ args = <<PaddedWelcome10, Float(1000, 1)>> =>
                  ret.value = <<Float(100, 1), <<>>>>

\* the padded coupon was applied to 1000
C7_Witness ==
    /\ fn = "_apply_coupon"
    /\ ret.status = "returned"
    /\ args = <<PaddedWelcome10, Float(1000, 1)>>

\* subtotal + shipping + fragile_fee + tax - discount of the returned call
UnclampedSum ==
    Sub(Add(Add(Add(frame.subtotal, frame.shipping), frame.fragile_fee), frame.tax),
        frame.discount)

\* C8: the warnings returned are the coupon warnings followed by the upgrade
\* suggestion and nothing else; the suggestion is present exactly when
\* subtotal > 10000 and the membership is neither gold nor platinum, after
\* "Unknown coupon" when both are present, and the total is the priced sum
\* whether or not it is present.
C8_Warnings ==
    (fn = "compute_total" /\ ret.status = "returned") =>
        LET inv == args[1]
            code == IF inv.coupon = NoneCoupon THEN <<>> ELSE Trimmed(inv.coupon)
            unknown == code # <<>> /\ code \notin {WELCOME10, VIP20, STUDENT5}
            subtotal == SumOfLines(inv.items, Len(inv.items))
            upgrade == /\ Lt(Float(10000, 1), subtotal)
                       /\ inv.membership \notin {"gold", "platinum"}
        IN  /\ ret.value[2] =
                  (IF unknown THEN <<"Unknown coupon">> ELSE <<>>)
                  \o (IF upgrade THEN <<"Consider membership upgrade">> ELSE <<>>)
            /\ ret.value[1] = Max(UnclampedSum, Float(0, 1))

\* both warnings were returned
C8_Witness ==
    /\ fn = "compute_total"
    /\ ret.status = "returned"
    /\ ret.value[2] = <<"Unknown coupon", "Consider membership upgrade">>

\* C9: whatever calls came before on the same service, compute_total on the
\* same invoice has the same outcome (total and warnings, or failure), and
\* the coupon table is as constructed.
C9_Repeatable ==
    /\ coupon_rate = InitCouponRate
    /\ \A a, b \in 1..Len(log) :
          log[a].inv = log[b].inv => log[a].ret = log[b].ret

\* an invoice was priced again after a call on another invoice failed and
\* one on a third returned warnings
C9_Witness ==
    /\ Len(log) >= 3
    /\ \E a, b, c \in 1..Len(log) :
          /\ a < b /\ b < c
          /\ log[a].inv = log[c].inv
          /\ log[a].ret.status = "returned"
          /\ log[a].ret.value[2] # <<>>
          /\ log[b].inv # log[a].inv

\* C10: for every valid invoice the total discount is at most the subtotal,
\* so the tax base and the tax are >= 0 and the sum
\* subtotal + shipping + fragile_fee + tax - discount is >= 0 before the
\* clamp, which leaves it as it is.
C10_ClampIdle ==
    (fn = "compute_total" /\ ret # Pending /\ ValidInvoice(args[1])) =>
        /\ ret.status = "returned"
        /\ frame.subtotal = SumOfLines(args[1].items, Len(args[1].items))
        /\ Le(frame.discount, frame.subtotal)
        /\ NonNegative(Sub(frame.subtotal, frame.discount))
        /\ NonNegative(frame.tax)
        /\ NonNegative(UnclampedSum)
        /\ ret.value[1] = UnclampedSum

====
